---- MODULE Spec2Model ----
(***************************************************************************)
(* Model of internal/vaults/model.go: the TVault record, the name and      *)
(* symbol builders, the migration and APY enrichment, and the per-chain    *)
(* vault index with FindVault.                                             *)
(*                                                                         *)
(* Strings are sequences of one-character strings, so that quote           *)
(* stripping, prefixes and suffixes are computed character by character.   *)
(***************************************************************************)
EXTENDS Integers, Sequences, FiniteSets

\* ------------------------------------------------------------------------
\* Bounds
\* ------------------------------------------------------------------------
\* Longest string enumerated over Alphabet for raw names, symbols and overrides.
MaxLen == 2
\* Most entries the two external stores hold at once, taken together.
MaxEntries == 1
\* Most vault records ingestion allocates.
MaxRecords == 2
\* Most insertions into the index.
MaxInserts == 3

\* ------------------------------------------------------------------------
\* Strings
\* ------------------------------------------------------------------------
Quote == "\""
EmptyStr == << >>
Alphabet == {Quote, "a"}
StrUpTo(n) == UNION {[1..k -> Alphabet] : k \in 0..n}

yVault == <<"y", "V", "a", "u", "l", "t">>
SpaceYVault == <<" ">> \o yVault
yv == <<"y", "v">>
FooToken == <<"F", "o", "o", " ", "T", "o", "k", "e", "n">>
MyQuotedVault == <<"M", "y", " ", Quote, "V", "a", "u", "l", "t", Quote>>
MyVault == <<"M", "y", " ", "V", "a", "u", "l", "t">>
USDC == <<"U", "S", "D", "C">>
yUSDCraw == <<"y", "U", "S", "D", "C", "-", "r", "a", "w">>
yvQuoted == <<"y", "v", Quote, "a">>

\* strings.Replace(s, "\"", "", -1)
StripQuotes(s) == SelectSeq(s, LAMBDA c : c # Quote)

\* strings.HasSuffix(s, suffix)
HasSuffix(s, suffix) ==
    /\ Len(s) >= Len(suffix)
    /\ SubSeq(s, Len(s) - Len(suffix) + 1, Len(s)) = suffix

\* strings.HasPrefix(s, prefix)
HasPrefix(s, prefix) ==
    /\ Len(s) >= Len(prefix)
    /\ SubSeq(s, 1, Len(prefix)) = prefix

\* helpers.SafeString(value, defaultValue)
SafeString(value, defaultValue) ==
    IF value = EmptyStr THEN defaultValue ELSE value

\* ------------------------------------------------------------------------
\* Addresses, chains and value types
\* ------------------------------------------------------------------------
Chains == {1, 2}
\* ethcommon.Address values; 0 is the zero address
Addrs == {0, 1, 2}
\* Addresses vault contracts are deployed at
VaultAddrs == Addrs \ {0}
\* common.FromAddress: wraps an ethcommon.Address in the common.Address type
FromAddress(a) == [Address |-> a]
\* common.Address.ToAddress: unwraps to the ethcommon.Address
ToAddress(x) == x.Address
ZeroAddress == FromAddress(0)

\* TMigration{}
ZeroMigration == [Available |-> FALSE, Address |-> ZeroAddress]

\* TAPY{}
ZeroAPY ==
    [Type |-> EmptyStr, GrossAPR |-> 0, NetAPY |-> 0,
     Fees |-> [Performance |-> 0, Withdrawal |-> 0, Management |-> 0,
               KeepCRV |-> 0, CvxKeepCRV |-> 0],
     Points |-> [WeekAgo |-> 0, MonthAgo |-> 0, Inception |-> 0],
     Composite |-> [Boost |-> 0, PoolAPY |-> 0, BoostedAPR |-> 0,
                    BaseAPR |-> 0, CvxAPR |-> 0, RewardsAPR |-> 0]]

\* A TVault as ingestion constructs it: identity and raw facts only.
NewVault(address, name, symbol, tokenName, tokenSymbol) ==
    [Address |-> address,
     Symbol |-> symbol, DisplaySymbol |-> EmptyStr, FormatedSymbol |-> EmptyStr,
     Name |-> name, DisplayName |-> EmptyStr, FormatedName |-> EmptyStr,
     Token |-> [Name |-> tokenName, Symbol |-> tokenSymbol],
     APY |-> ZeroAPY,
     Migration |-> ZeroMigration]

\* ------------------------------------------------------------------------
\* TVault.BuildNames
\* ------------------------------------------------------------------------
\* Variant: the write-back stores the formated name into Name.
BuildNames_WritesFormated(t, metaVaultName) ==
    LET name0 == StripQuotes(t.Name)
        displayName == IF metaVaultName # EmptyStr THEN metaVaultName ELSE t.Name
        formatedName0 == t.Token.Name
        formatedName1 == IF ~HasSuffix(formatedName0, yVault)
                         THEN formatedName0 \o SpaceYVault
                         ELSE formatedName0
        formatedName == IF displayName # EmptyStr /\ ~HasSuffix(displayName, yVault)
                        THEN displayName \o SpaceYVault
                        ELSE formatedName1
    IN [t EXCEPT !.Name = formatedName,
                 !.DisplayName = displayName,
                 !.FormatedName = formatedName]

\* Variant: the display name never takes over the formated name.
BuildNames_TokenOnly(t, metaVaultName) ==
    LET name0 == StripQuotes(t.Name)
        displayName == IF metaVaultName # EmptyStr THEN metaVaultName ELSE t.Name
        formatedName0 == t.Token.Name
        formatedName == IF ~HasSuffix(formatedName0, yVault)
                        THEN formatedName0 \o SpaceYVault
                        ELSE formatedName0
        name1 == IF name0 = EmptyStr THEN displayName ELSE name0
        name == IF name1 = EmptyStr THEN formatedName ELSE name1
    IN [t EXCEPT !.Name = name,
                 !.DisplayName = displayName,
                 !.FormatedName = formatedName]

\* Variant: the suffix is only added when a display name exists.
BuildNames_NoTokenSuffix(t, metaVaultName) ==
    LET name0 == StripQuotes(t.Name)
        displayName == IF metaVaultName # EmptyStr THEN metaVaultName ELSE t.Name
        formatedName0 == t.Token.Name
        formatedName == IF displayName # EmptyStr /\ ~HasSuffix(displayName, yVault)
                        THEN displayName \o SpaceYVault
                        ELSE formatedName0
        name1 == IF name0 = EmptyStr THEN displayName ELSE name0
        name == IF name1 = EmptyStr THEN formatedName ELSE name1
    IN [t EXCEPT !.Name = name,
                 !.DisplayName = displayName,
                 !.FormatedName = formatedName]

BuildNames(t, metaVaultName) ==
    LET name0 == StripQuotes(t.Name)
        displayName == IF metaVaultName # EmptyStr THEN metaVaultName ELSE t.Name
        formatedName0 == t.Token.Name
        formatedName1 == IF ~HasSuffix(formatedName0, yVault)
                         THEN formatedName0 \o SpaceYVault
                         ELSE formatedName0
        formatedName == IF displayName # EmptyStr /\ ~HasSuffix(displayName, yVault)
                        THEN displayName \o SpaceYVault
                        ELSE formatedName1
        name1 == IF name0 = EmptyStr THEN displayName ELSE name0
        name == IF name1 = EmptyStr THEN formatedName ELSE name1
    IN [t EXCEPT !.Name = name,
                 !.DisplayName = displayName,
                 !.FormatedName = formatedName]

\* ------------------------------------------------------------------------
\* TVault.BuildSymbol
\* ------------------------------------------------------------------------
\* Variant: Symbol and DisplaySymbol are written back swapped.
BuildSymbol_SwappedWrite(t, metaVaultSymbol) ==
    LET symbol0 == StripQuotes(t.Symbol)
        formatedSymbol0 == t.Token.Symbol
        displaySymbol0 == metaVaultSymbol
        formatedSymbol1 == IF ~HasPrefix(formatedSymbol0, yv)
                           THEN yv \o formatedSymbol0
                           ELSE formatedSymbol0
        formatedSymbol == IF displaySymbol0 # EmptyStr /\ ~HasPrefix(displaySymbol0, yv)
                          THEN yv \o displaySymbol0
                          ELSE formatedSymbol1
        symbol1 == SafeString(symbol0, displaySymbol0)
        symbol == SafeString(symbol1, formatedSymbol)
        displaySymbol == SafeString(displaySymbol0, symbol)
    IN [t EXCEPT !.Symbol = displaySymbol,
                 !.DisplaySymbol = symbol,
                 !.FormatedSymbol = formatedSymbol]

\* Variant: a non-empty override is used verbatim as the formated symbol.
BuildSymbol_NoOverridePrefix(t, metaVaultSymbol) ==
    LET symbol0 == StripQuotes(t.Symbol)
        formatedSymbol0 == t.Token.Symbol
        displaySymbol0 == metaVaultSymbol
        formatedSymbol1 == IF ~HasPrefix(formatedSymbol0, yv)
                           THEN yv \o formatedSymbol0
                           ELSE formatedSymbol0
        formatedSymbol == IF displaySymbol0 # EmptyStr /\ ~HasPrefix(displaySymbol0, yv)
                          THEN displaySymbol0
                          ELSE formatedSymbol1
        symbol1 == SafeString(symbol0, displaySymbol0)
        symbol == SafeString(symbol1, formatedSymbol)
        displaySymbol == SafeString(displaySymbol0, symbol)
    IN [t EXCEPT !.Symbol = symbol,
                 !.DisplaySymbol = displaySymbol,
                 !.FormatedSymbol = formatedSymbol]

\* Variant: the formated symbol is preferred over the override for Symbol.
BuildSymbol_FormatedFirst(t, metaVaultSymbol) ==
    LET symbol0 == StripQuotes(t.Symbol)
        formatedSymbol0 == t.Token.Symbol
        displaySymbol0 == metaVaultSymbol
        formatedSymbol1 == IF ~HasPrefix(formatedSymbol0, yv)
                           THEN yv \o formatedSymbol0
                           ELSE formatedSymbol0
        formatedSymbol == IF displaySymbol0 # EmptyStr /\ ~HasPrefix(displaySymbol0, yv)
                          THEN yv \o displaySymbol0
                          ELSE formatedSymbol1
        symbol1 == SafeString(symbol0, formatedSymbol)
        symbol == SafeString(symbol1, displaySymbol0)
        displaySymbol == SafeString(displaySymbol0, symbol)
    IN [t EXCEPT !.Symbol = symbol,
                 !.DisplaySymbol = displaySymbol,
                 !.FormatedSymbol = formatedSymbol]

BuildSymbol(t, metaVaultSymbol) ==
    LET symbol0 == StripQuotes(t.Symbol)
        formatedSymbol0 == t.Token.Symbol
        displaySymbol0 == metaVaultSymbol
        formatedSymbol1 == IF ~HasPrefix(formatedSymbol0, yv)
                           THEN yv \o formatedSymbol0
                           ELSE formatedSymbol0
        formatedSymbol == IF displaySymbol0 # EmptyStr /\ ~HasPrefix(displaySymbol0, yv)
                          THEN yv \o displaySymbol0
                          ELSE formatedSymbol1
        symbol1 == SafeString(symbol0, displaySymbol0)
        symbol == SafeString(symbol1, formatedSymbol)
        displaySymbol == SafeString(displaySymbol0, symbol)
    IN [t EXCEPT !.Symbol = symbol,
                 !.DisplaySymbol = displaySymbol,
                 !.FormatedSymbol = formatedSymbol]

\* ------------------------------------------------------------------------
\* External stores: chainID -> address -> entry (Go maps of maps)
\* ------------------------------------------------------------------------
\* The empty Go map
EmptyMap == [k \in {} |-> k]

\* m[chainID][address] with the comma-ok form: a missing chain yields a nil
\* inner map, and indexing a nil map reports ok = false.
HasKey(m, chainID, address) ==
    /\ chainID \in DOMAIN m
    /\ address \in DOMAIN m[chainID]

\* m[chainID][address] = entry, creating the inner map when missing
MapPut(m, chainID, address, entry) ==
    LET inner == IF chainID \in DOMAIN m THEN m[chainID] ELSE EmptyMap
        inner2 == [k \in DOMAIN inner \cup {address} |->
                      IF k = address THEN entry ELSE inner[k]]
    IN [c \in DOMAIN m \cup {chainID} |-> IF c = chainID THEN inner2 ELSE m[c]]

\* delete(m[chainID], address)
MapDelete(m, chainID, address) ==
    IF chainID \notin DOMAIN m THEN m
    ELSE [c \in DOMAIN m |->
            IF c = chainID
            THEN [k \in DOMAIN m[c] \ {address} |-> m[c][k]]
            ELSE m[c]]

\* Number of entries over all chains
RECURSIVE SumOver(_, _)
SumOver(m, cs) ==
    IF cs = {} THEN 0
    ELSE LET c == CHOOSE x \in cs : TRUE
         IN Cardinality(DOMAIN m[c]) + SumOver(m, cs \ {c})
MapSize(m) == SumOver(m, DOMAIN m)

\* Entries of meta.Store.VaultsFromMeta
MetaEntries ==
    [MigrationAvailable : BOOLEAN,
     MigrationTargetVault : {FromAddress(a) : a \in Addrs}]

\* LegacyAPY values of store.Store.AggregatedVault entries: every field of a
\* sample holds a value no other field of any sample holds.
APYSample(base) ==
    [Type |-> <<"v", base>>, GrossAPR |-> base + 1, NetAPY |-> base + 2,
     Fees |-> [Performance |-> base + 3, Withdrawal |-> base + 4,
               Management |-> base + 5, KeepCRV |-> base + 6,
               CvxKeepCRV |-> base + 7],
     Points |-> [WeekAgo |-> base + 8, MonthAgo |-> base + 9,
                 Inception |-> base + 10],
     Composite |-> [Boost |-> base + 11, PoolAPY |-> base + 12,
                    BoostedAPR |-> base + 13, BaseAPR |-> base + 14,
                    CvxAPR |-> base + 15, RewardsAPR |-> base + 16]]
AggregatedEntries == {[LegacyAPY |-> APYSample(b)] : b \in {100, 200}}

\* ------------------------------------------------------------------------
\* TVault.BuildMigration
\* ------------------------------------------------------------------------
\* Variant: a miss leaves the previous Migration in place.
BuildMigration_KeepOnMiss(t, chainID, vaultsFromMeta) ==
    LET key == FromAddress(t.Address)
        ok == HasKey(vaultsFromMeta, chainID, key)
    IN IF ok
       THEN LET vaultFromMeta == vaultsFromMeta[chainID][key]
                migrationAddress == IF vaultFromMeta.MigrationAvailable
                                    THEN vaultFromMeta.MigrationTargetVault
                                    ELSE FromAddress(t.Address)
            IN [t EXCEPT !.Migration =
                    [Available |-> vaultFromMeta.MigrationAvailable,
                     Address |-> migrationAddress]]
       ELSE t

\* Variant: the target vault is used whether or not migration is available.
BuildMigration_AlwaysTarget(t, chainID, vaultsFromMeta) ==
    LET key == FromAddress(t.Address)
        ok == HasKey(vaultsFromMeta, chainID, key)
    IN IF ok
       THEN LET vaultFromMeta == vaultsFromMeta[chainID][key]
            IN [t EXCEPT !.Migration =
                    [Available |-> vaultFromMeta.MigrationAvailable,
                     Address |-> vaultFromMeta.MigrationTargetVault]]
       ELSE [t EXCEPT !.Migration = ZeroMigration]

BuildMigration(t, chainID, vaultsFromMeta) ==
    LET key == FromAddress(t.Address)
        ok == HasKey(vaultsFromMeta, chainID, key)
    IN IF ok
       THEN LET vaultFromMeta == vaultsFromMeta[chainID][key]
                migrationAvailable == vaultFromMeta.MigrationAvailable
                migrationAddress == IF vaultFromMeta.MigrationAvailable
                                    THEN vaultFromMeta.MigrationTargetVault
                                    ELSE FromAddress(t.Address)
            IN [t EXCEPT !.Migration =
                    [Available |-> migrationAvailable,
                     Address |-> migrationAddress]]
       ELSE [t EXCEPT !.Migration = ZeroMigration]

\* ------------------------------------------------------------------------
\* TVault.BuildAPY
\* ------------------------------------------------------------------------
\* The field-by-field copy of a LegacyAPY into a TAPY
CopyLegacyAPY(legacyAPY) ==
    [Type |-> legacyAPY.Type,
     GrossAPR |-> legacyAPY.GrossAPR,
     NetAPY |-> legacyAPY.NetAPY,
     Points |-> [WeekAgo |-> legacyAPY.Points.WeekAgo,
                 MonthAgo |-> legacyAPY.Points.MonthAgo,
                 Inception |-> legacyAPY.Points.Inception],
     Composite |-> [Boost |-> legacyAPY.Composite.Boost,
                    PoolAPY |-> legacyAPY.Composite.PoolAPY,
                    BoostedAPR |-> legacyAPY.Composite.BoostedAPR,
                    BaseAPR |-> legacyAPY.Composite.BaseAPR,
                    CvxAPR |-> legacyAPY.Composite.CvxAPR,
                    RewardsAPR |-> legacyAPY.Composite.RewardsAPR],
     Fees |-> [Performance |-> legacyAPY.Fees.Performance,
               Management |-> legacyAPY.Fees.Management,
               Withdrawal |-> legacyAPY.Fees.Withdrawal,
               KeepCRV |-> legacyAPY.Fees.KeepCRV,
               CvxKeepCRV |-> legacyAPY.Fees.CvxKeepCRV]]

\* Variant: a miss leaves the previous APY in place.
BuildAPY_KeepOnMiss(t, chainID, aggregatedVault) ==
    LET key == FromAddress(t.Address)
        ok == HasKey(aggregatedVault, chainID, key)
    IN IF ok
       THEN [t EXCEPT !.APY = CopyLegacyAPY(aggregatedVault[chainID][key].LegacyAPY)]
       ELSE t

BuildAPY(t, chainID, aggregatedVault) ==
    LET key == FromAddress(t.Address)
        ok == HasKey(aggregatedVault, chainID, key)
    IN IF ok
       THEN [t EXCEPT !.APY = CopyLegacyAPY(aggregatedVault[chainID][key].LegacyAPY)]
       ELSE [t EXCEPT !.APY = ZeroAPY]

\* ------------------------------------------------------------------------
\* The per-chain index _vaultMap: chainID -> ethcommon.Address -> *TVault
\* ------------------------------------------------------------------------
\* The nil *TVault; record references are 1, 2, ...
Nil == 0

\* Insert(chainID, record): adds or replaces the record at
\* (chainID, record.Address)
Insert(m, chainID, ref, record) == MapPut(m, chainID, record.Address, ref)

\* Variant: the chain is ignored, any chain holding the address answers.
FindVault_AnyChain(m, chainID, vaultAddress) ==
    LET key == ToAddress(vaultAddress)
        holders == {c \in DOMAIN m : key \in DOMAIN m[c]}
    IN IF holders = {}
       THEN [token |-> Nil, ok |-> FALSE]
       ELSE [token |-> m[CHOOSE c \in holders : \A d \in holders : c <= d][key],
             ok |-> TRUE]

\* FindVault(chainID, vaultAddress) (*TVault, bool)
FindVault(m, chainID, vaultAddress) ==
    LET key == ToAddress(vaultAddress)
        ok == HasKey(m, chainID, key)
    IN IF ~ok
       THEN [token |-> Nil, ok |-> FALSE]
       ELSE [token |-> m[chainID][key], ok |-> TRUE]

\* ------------------------------------------------------------------------
\* State
\* ------------------------------------------------------------------------
VARIABLES
    vault,      \* the TVault the builders are called on
    pre,        \* the same record as it was before the last call
    op,         \* name of the last operation
    argStr,     \* its string argument (metaVaultName / metaVaultSymbol)
    argChain,   \* its chainID argument
    VaultsFromMeta,     \* meta.Store.VaultsFromMeta
    AggregatedVault,    \* store.Store.AggregatedVault
    records,    \* the TVault records allocated so far; a reference is an index
    vaultMap,   \* _vaultMap
    insertLog,  \* history: the <<chainID, reference>> pairs inserted, in order
    argAddr,    \* the vaultAddress argument of the last FindVault
    found       \* what the last FindVault returned

vars == <<vault, pre, op, argStr, argChain, VaultsFromMeta, AggregatedVault,
          records, vaultMap, insertLog, argAddr, found>>
storeVars == <<VaultsFromMeta, AggregatedVault>>
indexVars == <<records, vaultMap, insertLog, argAddr, found>>

\* The index before ingestion has run
IndexEmpty ==
    /\ records = << >>
    /\ vaultMap = EmptyMap
    /\ insertLog = << >>
    /\ argAddr = ZeroAddress
    /\ found = [token |-> Nil, ok |-> FALSE]

\* Inputs of the name builder
RawNames == StrUpTo(MaxLen) \cup {MyQuotedVault, yVault}
TokenNames == {EmptyStr, FooToken, yVault, <<Quote>>}
MetaNames == StrUpTo(MaxLen) \cup {yVault, <<"a">> \o SpaceYVault}

\* Inputs of the symbol builder
RawSymbols == StrUpTo(MaxLen) \cup {USDC}
TokenSymbols == {EmptyStr, yUSDCraw, yv, yvQuoted, <<Quote>>}
MetaSymbols == StrUpTo(MaxLen) \cup {USDC, yv \o USDC, yvQuoted}

InitNames ==
    /\ \E n \in RawNames, tn \in TokenNames :
          vault = NewVault(1, n, EmptyStr, tn, EmptyStr)
    /\ pre = vault
    /\ op = "init"
    /\ argStr = EmptyStr
    /\ argChain = 0
    /\ VaultsFromMeta = EmptyMap
    /\ AggregatedVault = EmptyMap
    /\ IndexEmpty

CallBuildNames ==
    \E metaVaultName \in MetaNames :
        /\ vault' = BuildNames(vault, metaVaultName)
        /\ pre' = vault
        /\ op' = "BuildNames"
        /\ argStr' = metaVaultName
        /\ UNCHANGED <<argChain, storeVars, indexVars>>

NextNames == CallBuildNames

SpecNames == InitNames /\ [][NextNames]_vars

InitSymbol ==
    /\ \E s \in RawSymbols, ts \in TokenSymbols :
          vault = NewVault(1, EmptyStr, s, EmptyStr, ts)
    /\ pre = vault
    /\ op = "init"
    /\ argStr = EmptyStr
    /\ argChain = 0
    /\ VaultsFromMeta = EmptyMap
    /\ AggregatedVault = EmptyMap
    /\ IndexEmpty

CallBuildSymbol ==
    \E metaVaultSymbol \in MetaSymbols :
        /\ vault' = BuildSymbol(vault, metaVaultSymbol)
        /\ pre' = vault
        /\ op' = "BuildSymbol"
        /\ argStr' = metaVaultSymbol
        /\ UNCHANGED <<argChain, storeVars, indexVars>>

NextSymbol == CallBuildSymbol

SpecSymbol == InitSymbol /\ [][NextSymbol]_vars

\* ------------------------------------------------------------------------
\* Enrichment: the two stores change under the record, the merges read them
\* ------------------------------------------------------------------------
InitEnrich ==
    /\ \E a \in VaultAddrs : vault = NewVault(a, EmptyStr, EmptyStr, EmptyStr, EmptyStr)
    /\ pre = vault
    /\ op = "init"
    /\ argStr = EmptyStr
    /\ argChain = 0
    /\ VaultsFromMeta = EmptyMap
    /\ AggregatedVault = EmptyMap
    /\ IndexEmpty

\* The curated-metadata collaborator adds or replaces an entry.
SetMeta ==
    \E chainID \in Chains, a \in VaultAddrs, entry \in MetaEntries :
        /\ VaultsFromMeta' = MapPut(VaultsFromMeta, chainID, FromAddress(a), entry)
        /\ MapSize(VaultsFromMeta') + MapSize(AggregatedVault) <= MaxEntries
        /\ pre' = vault
        /\ op' = "SetMeta"
        /\ argChain' = 0
        /\ UNCHANGED <<vault, argStr, AggregatedVault, indexVars>>

\* The curated-metadata collaborator drops an entry.
DeleteMeta ==
    \E chainID \in Chains, a \in VaultAddrs :
        /\ HasKey(VaultsFromMeta, chainID, FromAddress(a))
        /\ VaultsFromMeta' = MapDelete(VaultsFromMeta, chainID, FromAddress(a))
        /\ pre' = vault
        /\ op' = "DeleteMeta"
        /\ argChain' = 0
        /\ UNCHANGED <<vault, argStr, AggregatedVault, indexVars>>

\* The analytics collaborator adds or replaces an entry.
SetAggregated ==
    \E chainID \in Chains, a \in VaultAddrs, entry \in AggregatedEntries :
        /\ AggregatedVault' = MapPut(AggregatedVault, chainID, FromAddress(a), entry)
        /\ MapSize(VaultsFromMeta) + MapSize(AggregatedVault') <= MaxEntries
        /\ pre' = vault
        /\ op' = "SetAggregated"
        /\ argChain' = 0
        /\ UNCHANGED <<vault, argStr, VaultsFromMeta, indexVars>>

\* The analytics collaborator drops an entry.
DeleteAggregated ==
    \E chainID \in Chains, a \in VaultAddrs :
        /\ HasKey(AggregatedVault, chainID, FromAddress(a))
        /\ AggregatedVault' = MapDelete(AggregatedVault, chainID, FromAddress(a))
        /\ pre' = vault
        /\ op' = "DeleteAggregated"
        /\ argChain' = 0
        /\ UNCHANGED <<vault, argStr, VaultsFromMeta, indexVars>>

CallBuildMigration ==
    \E chainID \in Chains :
        /\ vault' = BuildMigration(vault, chainID, VaultsFromMeta)
        /\ pre' = vault
        /\ op' = "BuildMigration"
        /\ argChain' = chainID
        /\ UNCHANGED <<argStr, storeVars, indexVars>>

CallBuildAPY ==
    \E chainID \in Chains :
        /\ vault' = BuildAPY(vault, chainID, AggregatedVault)
        /\ pre' = vault
        /\ op' = "BuildAPY"
        /\ argChain' = chainID
        /\ UNCHANGED <<argStr, storeVars, indexVars>>

NextEnrich ==
    \/ SetMeta
    \/ DeleteMeta
    \/ SetAggregated
    \/ DeleteAggregated
    \/ CallBuildMigration
    \/ CallBuildAPY

SpecEnrich == InitEnrich /\ [][NextEnrich]_vars


\* ------------------------------------------------------------------------
\* Index: ingestion allocates records and inserts them, readers call FindVault
\* ------------------------------------------------------------------------
InitIndex ==
    /\ vault = NewVault(1, EmptyStr, EmptyStr, EmptyStr, EmptyStr)
    /\ pre = vault
    /\ op = "init"
    /\ argStr = EmptyStr
    /\ argChain = 0
    /\ VaultsFromMeta = EmptyMap
    /\ AggregatedVault = EmptyMap
    /\ IndexEmpty

\* Ingestion constructs a record for a discovered vault.
AllocRecord ==
    \E a \in VaultAddrs :
        /\ Len(records) < MaxRecords
        /\ records' = Append(records, NewVault(a, EmptyStr, EmptyStr, EmptyStr, EmptyStr))
        /\ op' = "AllocRecord"
        /\ argChain' = 0
        /\ UNCHANGED <<vault, pre, argStr, storeVars, vaultMap, insertLog, argAddr, found>>

\* Ingestion inserts a record under a chain.
CallInsert ==
    \E chainID \in Chains, ref \in 1..Len(records) :
        /\ Len(insertLog) < MaxInserts
        /\ vaultMap' = Insert(vaultMap, chainID, ref, records[ref])
        /\ insertLog' = Append(insertLog, <<chainID, ref>>)
        /\ op' = "Insert"
        /\ argChain' = chainID
        /\ UNCHANGED <<vault, pre, argStr, storeVars, records, argAddr, found>>

CallFindVault ==
    \E chainID \in Chains, a \in Addrs :
        /\ found' = FindVault(vaultMap, chainID, FromAddress(a))
        /\ argAddr' = FromAddress(a)
        /\ op' = "FindVault"
        /\ argChain' = chainID
        /\ UNCHANGED <<vault, pre, argStr, storeVars, records, vaultMap, insertLog>>

NextIndex ==
    \/ AllocRecord
    \/ CallInsert
    \/ CallFindVault

SpecIndex == InitIndex /\ [][NextIndex]_vars


\* ------------------------------------------------------------------------
\* Properties of BuildNames (checked under SpecNames)
\* ------------------------------------------------------------------------
NameFields(t) == <<t.Name, t.DisplayName, t.FormatedName>>
SymbolFields(t) == <<t.Symbol, t.DisplaySymbol, t.FormatedSymbol>>

\* C1 (as stated): after any BuildNames call, a second call with the same
\* override leaves Name, DisplayName and FormatedName unchanged.
C1_IdempotentAlways ==
    op = "BuildNames" =>
        NameFields(BuildNames(vault, argStr)) = NameFields(vault)

\* C1 (amended): when the Name the first call read was non-empty and free of
\* double quotes, a second BuildNames call with the same override leaves
\* Name, DisplayName and FormatedName unchanged.
C1_IdempotentQuoteFree ==
    (/\ op = "BuildNames"
     /\ pre.Name # EmptyStr
     /\ StripQuotes(pre.Name) = pre.Name)
    => NameFields(BuildNames(vault, argStr)) = NameFields(vault)

\* A call on a non-empty quote-free raw name, both with and without override.
C1_Witness ==
    /\ op = "BuildNames"
    /\ pre.Name = <<"a", "a">>
    /\ pre.DisplayName = EmptyStr
    /\ argStr = <<"a">>
    /\ vault.Name = <<"a", "a">>

\* C2 (as stated): raw name My "Vault", token name Foo Token, no override
\* gives Name = My Vault, FormatedName = Foo Token yVault, DisplayName = raw.
C2_ScenarioAsStated ==
    (/\ op = "BuildNames"
     /\ argStr = EmptyStr
     /\ pre.Name = MyQuotedVault
     /\ pre.Token.Name = FooToken)
    => /\ vault.Name = MyVault
       /\ vault.FormatedName = FooToken \o SpaceYVault
       /\ vault.DisplayName = MyQuotedVault

\* C2 (amended): raw name My "Vault", token name Foo Token, no override gives
\* Name = My Vault, DisplayName = My "Vault" and
\* FormatedName = My "Vault" yVault (the display name takes over).
C2_Scenario ==
    (/\ op = "BuildNames"
     /\ argStr = EmptyStr
     /\ pre.Name = MyQuotedVault
     /\ pre.Token.Name = FooToken)
    => /\ vault.Name = MyVault
       /\ vault.FormatedName = MyQuotedVault \o SpaceYVault
       /\ vault.DisplayName = MyQuotedVault

C2_Witness ==
    /\ op = "BuildNames"
    /\ argStr = EmptyStr
    /\ pre.Name = MyQuotedVault
    /\ pre.Token.Name = FooToken
    /\ pre.FormatedName = EmptyStr
    /\ vault.Name = MyVault

\* C7: after every BuildNames call, whatever the override and whatever calls
\* came before, FormatedName ends with "yVault".
C7_FormatedNameSuffix ==
    op = "BuildNames" => HasSuffix(vault.FormatedName, yVault)

\* A later call whose override differs from the one used before and already
\* ends in yVault, on a token name lacking the suffix.
C7_Witness ==
    /\ op = "BuildNames"
    /\ pre.FormatedName # EmptyStr
    /\ pre.DisplayName # vault.DisplayName
    /\ argStr = yVault
    /\ vault.Token.Name = FooToken
    /\ vault.FormatedName = FooToken \o SpaceYVault

\* ------------------------------------------------------------------------
\* Properties of BuildSymbol (checked under SpecSymbol)
\* ------------------------------------------------------------------------
\* C5 (as stated): after any BuildSymbol call, a second call with the same
\* override leaves Symbol, DisplaySymbol and FormatedSymbol unchanged.
C5_IdempotentAlways ==
    op = "BuildSymbol" =>
        SymbolFields(BuildSymbol(vault, argStr)) = SymbolFields(vault)

\* C5 (amended): when neither the override nor Token.Symbol contains a double
\* quote, a second BuildSymbol call with the same override leaves Symbol,
\* DisplaySymbol and FormatedSymbol unchanged, for any raw Symbol.
C5_IdempotentQuoteFree ==
    (/\ op = "BuildSymbol"
     /\ StripQuotes(argStr) = argStr
     /\ StripQuotes(vault.Token.Symbol) = vault.Token.Symbol)
    => SymbolFields(BuildSymbol(vault, argStr)) = SymbolFields(vault)

\* A first call on a raw symbol made of a quote only, quote-free override.
C5_Witness ==
    /\ op = "BuildSymbol"
    /\ pre.Symbol = <<Quote>>
    /\ pre.FormatedSymbol = EmptyStr
    /\ argStr = USDC
    /\ vault.Token.Symbol = yUSDCraw
    /\ vault.Symbol = USDC

\* C6: after every BuildSymbol call, whatever the override and whatever calls
\* came before, FormatedSymbol starts with "yv".
C6_FormatedSymbolPrefix ==
    op = "BuildSymbol" => HasPrefix(vault.FormatedSymbol, yv)

\* A later call with a changed, not yet prefixed override.
C6_Witness ==
    /\ op = "BuildSymbol"
    /\ pre.FormatedSymbol # EmptyStr
    /\ pre.FormatedSymbol # vault.FormatedSymbol
    /\ argStr = USDC
    /\ vault.FormatedSymbol = yv \o USDC

\* C10: BuildSymbol writes Symbol = first non-empty of (stripped raw symbol,
\* override, formated symbol) and DisplaySymbol = first non-empty of
\* (override, Symbol), the formated symbol being "yv"+override for a non-empty
\* unprefixed override and else Token.Symbol with "yv" put in front when
\* missing; raw "", override USDC, token yUSDC-raw gives yvUSDC, USDC, USDC.
C10_SymbolPrecedence ==
    op = "BuildSymbol" =>
        LET stripped == StripQuotes(pre.Symbol)
            tokenSym == pre.Token.Symbol
            formated ==
                IF argStr # EmptyStr /\ ~HasPrefix(argStr, yv)
                THEN yv \o argStr
                ELSE IF HasPrefix(tokenSym, yv) THEN tokenSym ELSE yv \o tokenSym
            FirstNonEmpty(ss) ==
                LET idx == {i \in 1..Len(ss) : ss[i] # EmptyStr}
                IN IF idx = {} THEN EmptyStr
                   ELSE ss[CHOOSE i \in idx : \A j \in idx : i <= j]
            final == FirstNonEmpty(<<stripped, argStr, formated>>)
        IN /\ vault.FormatedSymbol = formated
           /\ vault.Symbol = final
           /\ vault.DisplaySymbol = FirstNonEmpty(<<argStr, final>>)
           /\ (pre.Symbol = EmptyStr /\ argStr = USDC /\ tokenSym = yUSDCraw)
                => SymbolFields(vault) = <<USDC, USDC, yv \o USDC>>

C10_Witness ==
    /\ op = "BuildSymbol"
    /\ pre.Symbol = EmptyStr
    /\ argStr = USDC
    /\ pre.Token.Symbol = yUSDCraw
    /\ vault.FormatedSymbol = yv \o USDC
    /\ vault.Symbol = USDC
    /\ vault.DisplaySymbol = USDC

\* ------------------------------------------------------------------------
\* Properties of the enrichment (checked under SpecEnrich)
\* ------------------------------------------------------------------------
\* C3 (as stated): whenever Migration.Available is false, Migration.Address is
\* the zero address.
C3_UnavailableIsZero ==
    vault.Migration.Available = FALSE => vault.Migration.Address = ZeroAddress

\* C3 (amended): whenever Migration.Available is false, Migration.Address is
\* either the zero address (no metadata entry) or the record's own address
\* (an entry that marks migration unavailable).
C3_UnavailableIsZeroOrOwn ==
    vault.Migration.Available = FALSE =>
        vault.Migration.Address \in {ZeroAddress, FromAddress(vault.Address)}

\* BuildMigration has run on an entry whose migration is unavailable and whose
\* target is a third address.
C3_Witness ==
    /\ op = "BuildMigration"
    /\ HasKey(VaultsFromMeta, argChain, FromAddress(vault.Address))
    /\ VaultsFromMeta[argChain][FromAddress(vault.Address)] =
          [MigrationAvailable |-> FALSE, MigrationTargetVault |-> FromAddress(2)]
    /\ vault.Address = 1
    /\ vault.Migration = [Available |-> FALSE, Address |-> FromAddress(1)]

\* C4: after BuildMigration(chainID) the Migration depends only on the
\* metadata entry for (chainID, own address): none gives {false, zero}; one
\* with MigrationAvailable false gives {false, own address}; one with
\* MigrationAvailable true gives {true, MigrationTargetVault}.
C4_MigrationFromEntry ==
    op = "BuildMigration" =>
        LET own == [Address |-> vault.Address]
            present == /\ argChain \in DOMAIN VaultsFromMeta
                       /\ own \in DOMAIN VaultsFromMeta[argChain]
        IN /\ ~present =>
                vault.Migration = [Available |-> FALSE, Address |-> [Address |-> 0]]
           /\ present =>
                LET entry == VaultsFromMeta[argChain][own]
                IN /\ ~entry.MigrationAvailable =>
                        vault.Migration = [Available |-> FALSE, Address |-> own]
                   /\ entry.MigrationAvailable =>
                        vault.Migration = [Available |-> TRUE,
                                           Address |-> entry.MigrationTargetVault]

\* The call replaced an unavailable Migration by the available entry's target.
C4_Witness ==
    /\ op = "BuildMigration"
    /\ pre.Migration = [Available |-> FALSE, Address |-> FromAddress(1)]
    /\ vault.Address = 1
    /\ vault.Migration = [Available |-> TRUE, Address |-> FromAddress(2)]

\* C8: a BuildAPY or BuildMigration call that finds no entry for
\* (chainID, own address) completes and leaves APY, respectively Migration,
\* entirely zero-valued, whatever an earlier call had put there.
C8_MissGivesZero ==
    LET own == FromAddress(vault.Address)
    IN /\ (op = "BuildAPY" /\ ~HasKey(AggregatedVault, argChain, own))
            => vault.APY = ZeroAPY
       /\ (op = "BuildMigration" /\ ~HasKey(VaultsFromMeta, argChain, own))
            => vault.Migration = ZeroMigration

\* BuildAPY has run after the entry an earlier call copied was dropped.
C8_Witness ==
    /\ op = "BuildAPY"
    /\ pre.APY = APYSample(100)
    /\ ~HasKey(AggregatedVault, argChain, FromAddress(vault.Address))
    /\ argChain \in DOMAIN AggregatedVault
    /\ vault.APY = ZeroAPY

\* ------------------------------------------------------------------------
\* Properties of the index (checked under SpecIndex)
\* ------------------------------------------------------------------------
\* The reference most recently inserted at (chainID, a), Nil when none was.
LastInserted(chainID, a) ==
    LET hits == {i \in 1..Len(insertLog) :
                    /\ insertLog[i][1] = chainID
                    /\ records[insertLog[i][2]].Address = a}
    IN IF hits = {} THEN Nil
       ELSE insertLog[CHOOSE i \in hits : \A j \in hits : j <= i][2]

\* C9: FindVault(chainID, address) returns (nil, false) when nothing was ever
\* inserted at (chainID, address), else (the reference most recently inserted
\* there, true); and the index holds exactly the most recent insertions, so
\* FindVault left it as it was.
C9_FindVault ==
    /\ op = "FindVault" =>
          LET last == LastInserted(argChain, argAddr.Address)
          IN /\ found.ok = (last # Nil)
             /\ found.token = last
    /\ \A c \in Chains, a \in Addrs :
          LET last == LastInserted(c, a)
          IN IF last = Nil
             THEN ~(c \in DOMAIN vaultMap /\ a \in DOMAIN vaultMap[c])
             ELSE c \in DOMAIN vaultMap /\ a \in DOMAIN vaultMap[c]
                  /\ vaultMap[c][a] = last

\* A hit on a key whose record was replaced, the first record having also
\* been inserted under the other chain.
C9_Witness ==
    /\ op = "FindVault"
    /\ argChain = 1
    /\ argAddr = FromAddress(1)
    /\ insertLog = <<<<1, 1>>, <<2, 1>>, <<1, 2>>>>
    /\ records[1].Address = 1
    /\ records[2].Address = 1
    /\ found = [token |-> 2, ok |-> TRUE]
    /\ FindVault(vaultMap, 2, argAddr) = [token |-> 1, ok |-> TRUE]
    /\ FindVault(vaultMap, 2, FromAddress(2)) = [token |-> Nil, ok |-> FALSE]

====
